---- MODULE Spec2Model ----
(***************************************************************************)
(* Model of the module/registry core of bar-rs and of its bluetooth        *)
(* module: src/modules/mod.rs and src/modules/bluetooth.rs.                *)
(*                                                                         *)
(* Text is a sequence of tokens: a glyph is one token named by its code    *)
(* point, " " is the separator written by format!("{} {}"), a device name  *)
(* is one token.  Option<T> is a sequence of length 0 (None) or 1 (Some).  *)
(* Result<T, E> is a record [ok, val].                                     *)
(***************************************************************************)
EXTENDS Naturals, Sequences, FiniteSets, TLC

VARIABLES
    modules,      \* Registry: the registered Module instances
    listeners,    \* Registry: the activated Listener instances
    pump,         \* "running", or "panicked" once a Message closure trapped
    bus,          \* the raw adapter/device state of the bluetooth bus
    session,      \* "none", "established" or "failed": bluer::Session::new()
    pc,           \* position of the bluetooth subscription task
    cycle,        \* number of poll cycles the task has started
    queue,        \* Messages sent by the task and not yet delivered
    parked,       \* the channel's sender is parked (no capacity)
    receiver,     \* "open", or "dropped" once the subscription is cancelled
    lastApplied,  \* cycle of the Message the pump applied last (0: none)
    bt_text,      \* text of the bluetooth button as last rendered
    local_config, \* the LocalModuleConfig the modules share
    ui_event,     \* the UI event the bluetooth button saw last
    clicked,      \* what on_click returned for it: Option<&dyn Action>
    reduced       \* history: the last completed reduction of the bus, if any

vars == <<modules, listeners, pump, bus, session, pc, cycle, queue, parked, receiver,
          lastApplied, bt_text, local_config, ui_event, clicked, reduced>>

registryVars == <<modules, listeners, pump, bt_text>>
taskVars == <<bus, session, pc, cycle, queue, parked, receiver, lastApplied>>
clickVars == <<local_config, ui_event, clicked>>

None == << >>
Some(x) == <<x>>
unwrap_or(opt, d) == IF opt = None THEN d ELSE opt[1]
Ok(v) == [ok |-> TRUE, val |-> v]
Err == [ok |-> FALSE, val |-> "io::Error"]

(***************************************************************************)
(* Bounds of the model.                                                    *)
(***************************************************************************)
MaxAdapters == 2    \* controllers of a snapshot
MaxDevices == 2     \* connected devices of a snapshot, over all its controllers
MaxCycles == 3      \* poll cycles of one subscription task

(***************************************************************************)
(* The raw bus: a sequence of adapters in enumeration order, each with its *)
(* powered state and the devices at its addresses (one device per address, *)
(* in the order device_addresses lists them).                              *)
(***************************************************************************)
IconInputs == {None, Some("audio-headset"), Some("audio-headphones")}
Aliases == {"Headset", "Phone"}
RawDevices == [icon : IconInputs, connected : BOOLEAN, alias : Aliases]


\* Every query one poll cycle can make of bus b: the queries that can fail.
Queries(b) ==
    {[q |-> "adapter_names", a |-> 0, d |-> 0]}
    \cup {[q |-> k, a |-> i, d |-> 0] :
            k \in {"adapter", "is_powered", "device_addresses"}, i \in 1..Len(b)}
    \cup UNION {{[q |-> k, a |-> i, d |-> j] :
                   k \in {"device", "icon", "is_connected", "alias"},
                   j \in 1..Len(b[i].devices)} : i \in 1..Len(b)}

(***************************************************************************)
(* bluetooth.rs: the reduction of the bus to Controllers.                  *)
(***************************************************************************)
DeviceIcon(class) ==
    CASE class = "audio-card" -> "U+F04C3"
      [] class = "audio-input-microphone" -> "U+F130"
      [] class \in {"audio-headphones", "audio-headset"} -> "U+F02CB"
      [] class = "battery" -> "U+F0080"
      [] class = "camera-photo" -> "U+F0EDB"
      [] class = "computer" -> "U+F109"
      [] class = "input-keyboard" -> "U+F030C"
      [] class = "input-mouse" -> "U+F037D"
      [] class = "input-gaming" -> "U+F02B4"
      [] class = "phone" -> "U+F03F2"
      [] class = "None" -> "U+F294"
      [] OTHER -> "U+F293"

Device(icon, name) == [icon |-> icon, name |-> name]
Controller(is_powered, connected_devices) ==
    [is_powered |-> is_powered, connected_devices |-> connected_devices]

\* The loop of get_all_devices inserting the devices that are not connected too.
RECURSIVE get_all_devices_from_unfiltered(_, _, _, _, _)
get_all_devices_from_unfiltered(devices, a, fails, j, connected_devices) ==
    IF j > Len(devices) THEN Ok(connected_devices)
    ELSE IF [q |-> "device", a |-> a, d |-> j] \in fails THEN Err
    ELSE IF [q |-> "icon", a |-> a, d |-> j] \in fails THEN Err
    ELSE LET icon == DeviceIcon(unwrap_or(devices[j].icon, "None"))
         IN  IF [q |-> "is_connected", a |-> a, d |-> j] \in fails THEN Err
             ELSE IF [q |-> "alias", a |-> a, d |-> j] \in fails THEN Err
             ELSE get_all_devices_from_unfiltered(devices, a, fails, j + 1,
                      connected_devices \cup {Device(icon, devices[j].alias)})

\* The loop of get_all_devices with the address of a device in its entry.
RECURSIVE get_all_devices_from_addressed(_, _, _, _, _)
get_all_devices_from_addressed(devices, a, fails, j, connected_devices) ==
    IF j > Len(devices) THEN Ok(connected_devices)
    ELSE IF [q |-> "device", a |-> a, d |-> j] \in fails THEN Err
    ELSE IF [q |-> "icon", a |-> a, d |-> j] \in fails THEN Err
    ELSE LET icon == DeviceIcon(unwrap_or(devices[j].icon, "None"))
         IN  IF [q |-> "is_connected", a |-> a, d |-> j] \in fails THEN Err
             ELSE IF devices[j].connected
                  THEN IF [q |-> "alias", a |-> a, d |-> j] \in fails THEN Err
                       ELSE get_all_devices_from_addressed(devices, a, fails, j + 1,
                                connected_devices
                                    \cup {[icon |-> icon, name |-> devices[j].alias,
                                           address |-> j]})
                  ELSE get_all_devices_from_addressed(devices, a, fails, j + 1,
                                                      connected_devices)

\* The loop of get_all_devices from address j on, with the set built so far.
RECURSIVE get_all_devices_from(_, _, _, _, _)
get_all_devices_from(devices, a, fails, j, connected_devices) ==
    IF j > Len(devices) THEN Ok(connected_devices)
    ELSE IF [q |-> "device", a |-> a, d |-> j] \in fails THEN Err
    ELSE IF [q |-> "icon", a |-> a, d |-> j] \in fails THEN Err
    ELSE LET icon == DeviceIcon(unwrap_or(devices[j].icon, "None"))
         IN  IF [q |-> "is_connected", a |-> a, d |-> j] \in fails THEN Err
             ELSE IF devices[j].connected
                  THEN IF [q |-> "alias", a |-> a, d |-> j] \in fails THEN Err
                       ELSE get_all_devices_from(devices, a, fails, j + 1,
                                connected_devices \cup {Device(icon, devices[j].alias)})
                  ELSE get_all_devices_from(devices, a, fails, j + 1, connected_devices)

\* get_all_devices taking a failed listing of the addresses for no device.
get_all_devices_lenient(adapter, a, fails) ==
    IF [q |-> "device_addresses", a |-> a, d |-> 0] \in fails THEN Ok({})
    ELSE get_all_devices_from(adapter.devices, a, fails, 1, {})

get_all_devices(adapter, a, fails) ==
    IF [q |-> "device_addresses", a |-> a, d |-> 0] \in fails THEN Err
    ELSE get_all_devices_from(adapter.devices, a, fails, 1, {})

\* The loop of get_controllers from adapter i on, with the vector built so far.
RECURSIVE get_controllers_from(_, _, _, _)
get_controllers_from(b, fails, i, controllers) ==
    IF i > Len(b) THEN Ok(controllers)
    ELSE IF [q |-> "adapter", a |-> i, d |-> 0] \in fails
         THEN get_controllers_from(b, fails, i + 1, controllers)
    ELSE IF [q |-> "is_powered", a |-> i, d |-> 0] \in fails THEN Err
    ELSE LET connected_devices == get_all_devices(b[i], i, fails)
         IN  IF ~connected_devices.ok THEN Err
             ELSE get_controllers_from(b, fails, i + 1,
                      Append(controllers,
                             Controller(b[i].powered, connected_devices.val)))

\* A get_controllers whose vector is the one of the cycle before, not a new one.
get_controllers_keeping(b, fails) ==
    IF [q |-> "adapter_names", a |-> 0, d |-> 0] \in fails THEN Err
    ELSE get_controllers_from(b, fails, 1,
             IF reduced = None THEN << >> ELSE reduced[1].controllers)

get_controllers(b, fails) ==
    IF [q |-> "adapter_names", a |-> 0, d |-> 0] \in fails THEN Err
    ELSE get_controllers_from(b, fails, 1, << >>)

(***************************************************************************)
(* bluetooth.rs: BluetoothMod and what it shows.                           *)
(***************************************************************************)
ModuleConfigOverride_default == [action |-> None, icon_size |-> None]
PopupConfigOverride_default == [width |-> None, height |-> None]

PoweredGlyph == "U+F293"
UnpoweredGlyph == "U+F294"

\* A default whose popup override sets no size.
BluetoothMod_default_unsized ==
    [controllers |-> << >>,
     cfg_override |-> ModuleConfigOverride_default,
     popup_cfg_override |-> PopupConfigOverride_default,
     icons |-> [b \in BOOLEAN |-> IF b THEN PoweredGlyph ELSE UnpoweredGlyph]]

BluetoothMod_default ==
    [controllers |-> << >>,
     cfg_override |-> ModuleConfigOverride_default,
     popup_cfg_override |->
         [PopupConfigOverride_default EXCEPT !.width = Some(250), !.height = Some(250)],
     icons |-> [b \in BOOLEAN |-> IF b THEN PoweredGlyph ELSE UnpoweredGlyph]]

IconPanic == "panic: bluetooth icon already set in module"

\* icon with all() in the place of any().
icon_all(self) ==
    LET enabled == \A i \in 1..Len(self.controllers) : self.controllers[i].is_powered
    IN  IF enabled \in DOMAIN self.icons THEN self.icons[enabled] ELSE IconPanic

icon(self) ==
    LET enabled == \E i \in 1..Len(self.controllers) : self.controllers[i].is_powered
    IN  IF enabled \in DOMAIN self.icons THEN self.icons[enabled] ELSE IconPanic

connected_devices(self) ==
    UNION {self.controllers[i].connected_devices : i \in 1..Len(self.controllers)}

\* The orders in which a HashSet's iterator may yield the elements of S.
IterationOrders(S) ==
    {f \in [1..Cardinality(S) -> S] : \A i, j \in 1..Cardinality(S) : f[i] = f[j] => i = j}

\* view with the arm of one device showing what the arm of several shows.
view_icons_only(self) ==
    LET devices == connected_devices(self)
    IN  CASE Cardinality(devices) = 0 -> {<<icon(self)>>}
          [] OTHER ->
                 {[i \in 1..Cardinality(devices) |-> order[i].icon] :
                      order \in IterationOrders(devices)}

\* The texts view may put on the button: one for each iteration order of the set.
view(self) ==
    LET devices == connected_devices(self)
    IN  CASE Cardinality(devices) = 0 -> {<<icon(self)>>}
          [] Cardinality(devices) = 1 ->
                 {<<device.icon, " ", device.name>> : device \in devices}
          [] OTHER ->
                 {[i \in 1..Cardinality(devices) |-> order[i].icon] :
                      order \in IterationOrders(devices)}

\* ModuleConfigOverride::from(&HashMap) and PopupConfigOverride::update: a key
\* that is present with a value overrides, any other key leaves the field alone.
ModuleConfigOverride_from(config) ==
    [ModuleConfigOverride_default EXCEPT
        !.icon_size = IF "icon_size" \in DOMAIN config THEN config["icon_size"] ELSE None]

PopupConfigOverride_update(self, popup_config) ==
    [self EXCEPT
        !.width = IF "width" \in DOMAIN popup_config /\ popup_config["width"] # None
                  THEN popup_config["width"] ELSE @,
        !.height = IF "height" \in DOMAIN popup_config /\ popup_config["height"] # None
                   THEN popup_config["height"] ELSE @]

read_config(self, config, popup_config) ==
    [self EXCEPT
        !.cfg_override = ModuleConfigOverride_from(config),
        !.popup_cfg_override = PopupConfigOverride_update(@, popup_config)]

EmptyMap == << >>
ConfigMaps == {EmptyMap, [k \in {"icon_size"} |-> Some(20)]}
PopupConfigMaps == {EmptyMap, [k \in {"width"} |-> Some(300)]}

(***************************************************************************)
(* mod.rs: the module types, and the Registry they are registered in.      *)
(* A Registry entry is one instance: its concrete type, which instance of  *)
(* that type it is, and its state.                                         *)
(***************************************************************************)
ModuleTypes ==
    {"EmptyModule", "CpuMod", "MemoryMod", "BatteryMod", "BluetoothMod", "VolumeMod",
     "MediaMod", "DateMod", "TimeMod", "DiskUsageMod", "HyprWindowMod",
     "HyprWorkspaceMod", "WayfireWorkspaceMod", "WayfireWindowMod",
     "NiriWorkspaceMod", "NiriWindowMod"}

Default(T) ==
    IF T = "BluetoothMod" THEN BluetoothMod_default ELSE [default |-> T]

Instances(entries, T) == {e \in entries : e.type = T}

get_module(mods, T) ==
    LET es == Instances(mods, T)
    IN  IF es = {} THEN None
        ELSE Some((CHOOSE e \in es : \A o \in es : e.inst <= o.inst).state)

get_module_mut(mods, T) == get_module(mods, T)

register_module(mods, T) ==
    IF Instances(mods, T) # {} THEN mods
    ELSE mods \cup {[type |-> T, inst |-> 1, state |-> Default(T)]}

\* The calls with BluetoothMod registered in the place of VolumeMod too.
ModuleList_twice ==
    <<"EmptyModule", "CpuMod", "MemoryMod", "BatteryMod", "BluetoothMod", "BluetoothMod",
      "MediaMod", "DateMod", "TimeMod", "DiskUsageMod", "HyprWindowMod",
      "HyprWorkspaceMod", "WayfireWorkspaceMod", "WayfireWindowMod",
      "NiriWorkspaceMod", "NiriWindowMod">>

\* The order of the calls in register_modules.
ModuleList ==
    <<"EmptyModule", "CpuMod", "MemoryMod", "BatteryMod", "BluetoothMod", "VolumeMod",
      "MediaMod", "DateMod", "TimeMod", "DiskUsageMod", "HyprWindowMod",
      "HyprWorkspaceMod", "WayfireWorkspaceMod", "WayfireWindowMod",
      "NiriWorkspaceMod", "NiriWindowMod">>

RECURSIVE register_each(_, _)
register_each(mods, list) ==
    IF list = << >> THEN mods
    ELSE register_each(register_module(mods, Head(list)), Tail(list))

register_modules(mods) == register_each(mods, ModuleList)

\* mods with the state of its T instance replaced.
with_state(mods, T, state) ==
    {IF e.type = T THEN [e EXCEPT !.state = state] ELSE e : e \in mods}

\* The closure extending the module's vector with the snapshot.
subscription_update_extend(mods, controllers) ==
    LET m == get_module_mut(mods, "BluetoothMod")
    IN  IF m = None THEN Err
        ELSE Ok(with_state(mods, "BluetoothMod",
                    [m[1] EXCEPT !.controllers = @ \o controllers]))

\* The closure of Message::update in BluetoothMod::subscription: the looked-up
\* module is used as it comes, so a lookup that finds none traps.
subscription_update(mods, controllers) ==
    LET m == get_module_mut(mods, "BluetoothMod")
    IN  IF m = None THEN Err
        ELSE Ok(with_state(mods, "BluetoothMod", [m[1] EXCEPT !.controllers = controllers]))

NoText == << >>

\* What the pump renders for the bluetooth button after an update.
render(mods) ==
    LET m == get_module(mods, "BluetoothMod")
    IN  IF m = None THEN {NoText} ELSE view(m[1])

(***************************************************************************)
(* mod.rs: Listeners.  A module names the Listeners it needs by TypeId;    *)
(* the Registry keeps the activated instances.                             *)
(***************************************************************************)
ListenerTypes == {"HyprListener", "NiriListener", "WayfireListener"}

\* A require_listener whose TypeId does not depend on T.
require_listener_same(T) == "HyprListener"

require_listener(T) == T

\* Module::requires as the trait gives it, which BluetoothMod keeps.
requires_default == << >>

\* requires of the window-manager modules, which override it.
requires(M) ==
    CASE M = "HyprWindowMod" -> <<require_listener("HyprListener")>>
      [] M = "HyprWorkspaceMod" ->
             <<require_listener("HyprListener"), require_listener("HyprListener")>>
      [] M \in {"NiriWindowMod", "NiriWorkspaceMod"} -> <<require_listener("NiriListener")>>
      [] M \in {"WayfireWindowMod", "WayfireWorkspaceMod"} ->
             <<require_listener("WayfireListener")>>
      [] OTHER -> requires_default

activate_listener(ls, L) ==
    IF Instances(ls, L) # {} THEN ls ELSE ls \cup {[type |-> L, inst |-> 1]}

RECURSIVE activate_each(_, _)
activate_each(ls, ids) ==
    IF ids = << >> THEN ls
    ELSE activate_each(activate_listener(ls, Head(ids)), Tail(ids))

\* The TypeIds the registered modules of list require, in order.
RECURSIVE required_ids(_, _)
required_ids(mods, list) ==
    IF list = << >> THEN << >>
    ELSE (IF Instances(mods, Head(list)) # {} THEN requires(Head(list)) ELSE << >>)
         \o required_ids(mods, Tail(list))

activate_required(ls, mods) == activate_each(ls, required_ids(mods, ModuleList))

(***************************************************************************)
(* The bluetooth subscription's channel: stream::channel(1, ..).           *)
(***************************************************************************)
ChannelBuffer == 1

Message(c, controllers) == [cycle |-> c, controllers |-> controllers]

\* A send that puts the Message ahead of those sent before.
send_front(channel, message) == <<message>> \o channel

\* sender.send(..): the Message joins the channel behind those sent before.
send(channel, message) == Append(channel, message)

(***************************************************************************)
(* mod.rs: click actions.  An Action is named by the command it runs; an   *)
(* Event is iced's, as far as OnClickAction::event tells events apart.     *)
(***************************************************************************)
OnClickAction(left, center, right) == [left |-> left, center |-> center, right |-> right]

OnClickAction_default == OnClickAction(None, None, None)

MouseButtons == {"Left", "Right", "Middle", "Back", "Forward", "Other"}

Mouse(kind, button) == [type |-> "Mouse", kind |-> kind, button |-> button]

Events ==
    {Mouse(kind, button) : kind \in {"ButtonPressed", "ButtonReleased"}, button \in MouseButtons}
    \cup {[type |-> "Mouse", kind |-> "CursorMoved", button |-> "none"],
          [type |-> "Keyboard", kind |-> "KeyReleased", button |-> "none"],
          [type |-> "Window", kind |-> "Focused", button |-> "none"],
          [type |-> "Touch", kind |-> "FingerLifted", button |-> "none"]}

\* An event whose Middle release is answered from the right slot.
event_middle_right(self, e) ==
    CASE e = Mouse("ButtonReleased", "Left") -> self.left
      [] e = Mouse("ButtonReleased", "Middle") -> self.right
      [] e = Mouse("ButtonReleased", "Right") -> self.right
      [] OTHER -> None

\* OnClickAction::event.
event(self, e) ==
    CASE e = Mouse("ButtonReleased", "Left") -> self.left
      [] e = Mouse("ButtonReleased", "Middle") -> self.center
      [] e = Mouse("ButtonReleased", "Right") -> self.right
      [] OTHER -> None

\* An on_click that falls back to the shared config button by button.
on_click_per_button(self, e, config) ==
    LET own == event(unwrap_or(self.cfg_override.action, config.action), e)
    IN  IF own # None THEN own ELSE event(config.action, e)

\* impl_on_click!: Module::on_click as BluetoothMod has it.
on_click(self, e, config) ==
    event(unwrap_or(self.cfg_override.action, config.action), e)

LocalModuleConfig_default == [action |-> OnClickAction_default]

NoEvent == [type |-> "none", kind |-> "none", button |-> "none"]

\* The commands a click can be configured to run.
Commands == {"sh: blueman-manager", "sh: bluetoothctl power off", "sh: rfkill toggle"}

Slots == {None} \cup {Some(c) : c \in Commands}

OnClickActions == {OnClickAction(l, c, r) : l \in Slots, c \in Slots, r \in Slots}

(***************************************************************************)
(* Inputs of the state machine.                                            *)
(***************************************************************************)
Headset == [icon |-> Some("audio-headset"), connected |-> TRUE, alias |-> "Headset"]
Phone == [icon |-> None, connected |-> TRUE, alias |-> "Phone"]
Idle == [icon |-> Some("audio-headphones"), connected |-> FALSE, alias |-> "Headset"]
Headphones == [icon |-> Some("audio-headphones"), connected |-> TRUE, alias |-> "Headset"]

\* The bus states the environment of the polling task moves between.
BusScenarios ==
    {<< >>,
     <<[powered |-> TRUE, devices |-> <<Headset>>]>>,
     <<[powered |-> FALSE, devices |-> <<Idle>>]>>,
     <<[powered |-> FALSE, devices |-> << >>],
       [powered |-> TRUE, devices |-> <<Headset, Phone>>]>>,
     <<[powered |-> TRUE, devices |-> <<Headset, Headphones>>]>>}

MaxFailures == 1    \* queries that fail in one poll cycle

\* The subsets of S of at most n elements.
RECURSIVE SubsetsUpTo(_, _)
SubsetsUpTo(S, n) ==
    IF n = 0 THEN {{}}
    ELSE LET smaller == SubsetsUpTo(S, n - 1)
         IN  smaller \cup {F \cup {q} : F \in smaller, q \in S}

FailureSets(b) == SubsetsUpTo(Queries(b), MaxFailures)

\* The snapshots the poll cycles that complete produce of the bus scenarios.
ScenarioSnapshots ==
    UNION {{get_controllers(b, F).val : F \in {G \in FailureSets(b) : get_controllers(b, G).ok}} :
              b \in BusScenarios}

\* The Devices get_all_devices makes of the raw devices.
Devices == {Device(DeviceIcon(unwrap_or(r.icon, "None")), r.alias) : r \in RawDevices}

\* The snapshots of at most k controllers with at most n connected devices in all.
RECURSIVE SnapshotsUpTo(_, _)
SnapshotsUpTo(k, n) ==
    IF k = 0 THEN {<< >>}
    ELSE {<< >>} \cup
         UNION {{<<Controller(p, ds)>> \o rest :
                    p \in BOOLEAN,
                    ds \in {D \in SUBSET Devices : Cardinality(D) = m},
                    rest \in SnapshotsUpTo(k - 1, n - m)} : m \in 0..n}

AllSnapshots == SnapshotsUpTo(MaxAdapters, MaxDevices)

\* The module types registered one by one, outside register_modules.
DirectTypes == {"BluetoothMod", "CpuMod", "HyprWindowMod"}

(***************************************************************************)
(* The state machine.                                                      *)
(***************************************************************************)
Init ==
    /\ modules = {}
    /\ listeners = {}
    /\ pump = "running"
    /\ bus \in BusScenarios
    /\ session = "none"
    /\ pc = "start"
    /\ cycle = 0
    /\ queue = << >>
    /\ parked = FALSE
    /\ receiver = "open"
    /\ lastApplied = 0
    /\ bt_text = NoText
    /\ local_config = LocalModuleConfig_default
    /\ ui_event = NoEvent
    /\ clicked = None
    /\ reduced = None

\* register_modules, and the first frame.
RegisterModules ==
    /\ pump = "running"
    /\ modules' = register_modules(modules)
    /\ bt_text' \in render(modules')
    /\ UNCHANGED <<listeners, pump, taskVars>>
    /\ UNCHANGED clickVars
    /\ UNCHANGED reduced

\* Registry::register_module::<T>().
RegisterModule(T) ==
    /\ pump = "running"
    /\ modules' = register_module(modules, T)
    /\ bt_text' \in render(modules')
    /\ UNCHANGED <<listeners, pump, taskVars>>
    /\ UNCHANGED clickVars
    /\ UNCHANGED reduced

\* Registry::activate_listener::<L>().
ActivateListener(L) ==
    /\ pump = "running"
    /\ listeners' = activate_listener(listeners, L)
    /\ UNCHANGED <<modules, pump, bt_text, taskVars>>
    /\ UNCHANGED clickVars
    /\ UNCHANGED reduced

\* Activation of every Listener the registered modules require.
ActivateRequired ==
    /\ pump = "running"
    /\ listeners' = activate_required(listeners, modules)
    /\ UNCHANGED <<modules, pump, bt_text, taskVars>>
    /\ UNCHANGED clickVars
    /\ UNCHANGED reduced

\* BluetoothMod::read_config, at startup or on a reload.
ReadConfig(config, popup_config) ==
    /\ pump = "running"
    /\ get_module(modules, "BluetoothMod") # None
    /\ modules' = with_state(modules, "BluetoothMod",
                      read_config(get_module(modules, "BluetoothMod")[1],
                                  config, popup_config))
    /\ bt_text' \in render(modules')
    /\ UNCHANGED <<listeners, pump, taskVars>>
    /\ UNCHANGED clickVars
    /\ UNCHANGED reduced

\* The pump applies one bluetooth Message to the Registry and renders.
Apply(controllers) ==
    LET r == subscription_update(modules, controllers)
    IN  /\ IF r.ok
           THEN /\ modules' = r.val
                /\ bt_text' \in render(r.val)
                /\ pump' = pump
           ELSE /\ pump' = "panicked"
                /\ UNCHANGED <<modules, bt_text>>
        /\ UNCHANGED listeners

\* Registry::dispatch of a bluetooth Message, whatever the Registry holds.
Dispatch(controllers) ==
    /\ pump = "running"
    /\ Apply(controllers)
    /\ UNCHANGED taskVars
    /\ UNCHANGED clickVars
    /\ UNCHANGED reduced

\* A task that tries again when the session cannot be established.
OpenSession_retry ==
    /\ pc = "start"
    /\ pump = "running"
    /\ get_module(modules, "BluetoothMod") # None
    /\ \E established \in BOOLEAN :
           IF established
           THEN session' = "established" /\ pc' = "poll"
           ELSE session' = "failed" /\ pc' = "start"
    /\ UNCHANGED <<registryVars, bus, cycle, queue, parked, receiver, lastApplied>>
    /\ UNCHANGED clickVars
    /\ UNCHANGED reduced

\* The task starts: bluer::Session::new().
OpenSession ==
    /\ pc = "start"
    /\ pump = "running"
    /\ get_module(modules, "BluetoothMod") # None
    /\ \E established \in BOOLEAN :
           IF established
           THEN session' = "established" /\ pc' = "poll"
           ELSE session' = "failed" /\ pc' = "ended"
    /\ UNCHANGED <<registryVars, bus, cycle, queue, parked, receiver, lastApplied>>
    /\ UNCHANGED clickVars
    /\ UNCHANGED reduced

\* A poll cycle that goes on to sleep when its send finds no receiver.
Poll_unheeding(fails) ==
    /\ pc = "poll"
    /\ cycle < MaxCycles
    /\ cycle' = cycle + 1
    /\ LET controllers == get_controllers(bus, fails)
       IN  IF ~controllers.ok
           THEN pc' = "panicked" /\ UNCHANGED <<queue, parked>>
           ELSE IF receiver = "dropped"
           THEN pc' = "sleep" /\ UNCHANGED <<queue, parked>>
           ELSE /\ queue' = send(queue, Message(cycle', controllers.val))
                /\ parked' = (Len(queue') > ChannelBuffer)
                /\ pc' = "flush"
    /\ UNCHANGED <<registryVars, bus, session, receiver, lastApplied>>
    /\ UNCHANGED clickVars
    /\ UNCHANGED reduced

\* A poll cycle that also writes its snapshot to the module itself.
Poll_writing(fails) ==
    /\ pc = "poll"
    /\ cycle < MaxCycles
    /\ cycle' = cycle + 1
    /\ LET controllers == get_controllers(bus, fails)
       IN  IF ~controllers.ok
           THEN pc' = "panicked" /\ UNCHANGED <<queue, parked, modules>>
           ELSE IF receiver = "dropped"
           THEN pc' = "returned" /\ UNCHANGED <<queue, parked, modules>>
           ELSE /\ queue' = send(queue, Message(cycle', controllers.val))
                /\ parked' = (Len(queue') > ChannelBuffer)
                /\ modules' = subscription_update(modules, controllers.val).val
                /\ pc' = "flush"
    /\ UNCHANGED <<listeners, pump, bt_text, bus, session, receiver, lastApplied>>
    /\ UNCHANGED clickVars
    /\ UNCHANGED reduced

\* One poll cycle: get_controllers, unwrap, and the send up to its flush.  The
\* sender is not parked here, the flush of the send before has waited for that.
Poll(fails) ==
    /\ pc = "poll"
    /\ cycle < MaxCycles
    /\ cycle' = cycle + 1
    /\ LET controllers == get_controllers(bus, fails)
       IN  IF ~controllers.ok
           THEN pc' = "panicked" /\ UNCHANGED <<queue, parked>>
           ELSE IF receiver = "dropped"
           THEN pc' = "returned" /\ UNCHANGED <<queue, parked>>
           ELSE /\ queue' = send(queue, Message(cycle', controllers.val))
                /\ parked' = (Len(queue') > ChannelBuffer)
                /\ pc' = "flush"
    /\ UNCHANGED <<registryVars, bus, session, receiver, lastApplied>>
    /\ UNCHANGED clickVars
    /\ UNCHANGED reduced

\* The adapters session.adapter(..) gives the cycle when the queries of fails fail.
Obtained(b, fails) == {i \in 1..Len(b) : [q |-> "adapter", a |-> i, d |-> 0] \notin fails}

\* Poll, with the history of the reduction kept: what the cycle read and made,
\* and whether the completed cycle before it read the same.
Reduce(fails) ==
    /\ pc = "poll"
    /\ cycle < MaxCycles
    /\ cycle' = cycle + 1
    /\ LET controllers == get_controllers(bus, fails)
       IN  IF ~controllers.ok
           THEN pc' = "panicked" /\ UNCHANGED <<queue, parked, reduced>>
           ELSE /\ reduced' = Some([bus |-> bus,
                                    obtained |-> Obtained(bus, fails),
                                    controllers |-> controllers.val,
                                    again |-> /\ reduced # None
                                              /\ reduced[1].bus = bus
                                              /\ reduced[1].obtained = Obtained(bus, fails)])
                /\ IF receiver = "dropped"
                   THEN pc' = "returned" /\ UNCHANGED <<queue, parked>>
                   ELSE /\ queue' = send(queue, Message(cycle', controllers.val))
                        /\ parked' = (Len(queue') > ChannelBuffer)
                        /\ pc' = "flush"
    /\ UNCHANGED <<registryVars, bus, session, receiver, lastApplied>>
    /\ UNCHANGED clickVars

\* A send that completes whether the sender has capacity or not.
Flush_unawaited ==
    /\ pc = "flush"
    /\ pc' = "sleep"
    /\ UNCHANGED <<registryVars, bus, session, cycle, queue, parked, receiver, lastApplied>>
    /\ UNCHANGED clickVars
    /\ UNCHANGED reduced

\* The send completes once the sender has capacity again, or has no receiver.
Flush ==
    /\ pc = "flush"
    /\ ~parked \/ receiver = "dropped"
    /\ pc' = "sleep"
    /\ UNCHANGED <<registryVars, bus, session, cycle, queue, parked, receiver, lastApplied>>
    /\ UNCHANGED clickVars
    /\ UNCHANGED reduced

\* A task that ends after its first cycle, where the loop sleeps.
Sleep_ending ==
    /\ pc = "sleep"
    /\ pc' = "ended"
    /\ UNCHANGED <<registryVars, bus, session, cycle, queue, parked, receiver, lastApplied>>
    /\ UNCHANGED clickVars
    /\ UNCHANGED reduced

\* sleep(Duration::from_secs(1)).
Sleep ==
    /\ pc = "sleep"
    /\ pc' = "poll"
    /\ UNCHANGED <<registryVars, bus, session, cycle, queue, parked, receiver, lastApplied>>
    /\ UNCHANGED clickVars
    /\ UNCHANGED reduced

\* The pump takes the oldest Message and applies it.
Deliver ==
    /\ pump = "running"
    /\ queue # << >>
    /\ queue' = Tail(queue)
    /\ parked' = FALSE
    /\ lastApplied' = Head(queue).cycle
    /\ Apply(Head(queue).controllers)
    /\ UNCHANGED <<bus, session, pc, cycle, receiver>>
    /\ UNCHANGED clickVars
    /\ UNCHANGED reduced

\* The subscription is cancelled: the receiver is dropped, and with it the
\* Messages the pump has not taken out of the channel yet.
Cancel ==
    /\ receiver = "open"
    /\ pc # "start"
    /\ receiver' = "dropped"
    /\ \E kept \in 0..Len(queue) : queue' = SubSeq(queue, 1, kept)
    /\ UNCHANGED <<registryVars, bus, session, pc, cycle, parked, lastApplied>>
    /\ UNCHANGED clickVars
    /\ UNCHANGED reduced

\* The devices and adapters of the bus change.
BusChange ==
    /\ \E b \in BusScenarios \ {bus} : bus' = b
    /\ UNCHANGED <<registryVars, session, pc, cycle, queue, parked, receiver, lastApplied>>
    /\ UNCHANGED clickVars
    /\ UNCHANGED reduced

Next ==
    \/ RegisterModules
    \/ \E config \in ConfigMaps : ReadConfig(config, EmptyMap)
    \/ OpenSession
    \/ \E fails \in FailureSets(bus) : Poll(fails)
    \/ Flush
    \/ Sleep
    \/ Deliver
    \/ Cancel
    \/ BusChange

Spec == Init /\ [][Next]_vars

\* The Registry under any sequence of calls.
NextRegistry ==
    \/ RegisterModules
    \/ \E T \in DirectTypes : RegisterModule(T)
    \/ \E L \in ListenerTypes : ActivateListener(L)
    \/ ActivateRequired
    \/ \E config \in ConfigMaps, popup_config \in PopupConfigMaps :
           ReadConfig(config, popup_config)
    \/ \E controllers \in ScenarioSnapshots : Dispatch(controllers)

SpecRegistry == Init /\ [][NextRegistry]_vars

\* BluetoothMod::view over every snapshot a poll cycle can deliver.
InitView ==
    /\ \E controllers \in AllSnapshots :
           modules = subscription_update(register_modules({}), controllers).val
    /\ listeners = {}
    /\ pump = "running"
    /\ bus = << >>
    /\ session = "none"
    /\ pc = "start"
    /\ cycle = 0
    /\ queue = << >>
    /\ parked = FALSE
    /\ receiver = "open"
    /\ lastApplied = 0
    /\ bt_text = NoText
    /\ local_config = LocalModuleConfig_default
    /\ ui_event = NoEvent
    /\ clicked = None
    /\ reduced = None

Render ==
    /\ bt_text' \in render(modules)
    /\ UNCHANGED <<modules, listeners, pump, taskVars>>
    /\ UNCHANGED clickVars
    /\ UNCHANGED reduced

NextView ==
    \/ Render
    \/ \E config \in ConfigMaps, popup_config \in PopupConfigMaps :
           ReadConfig(config, popup_config)

SpecView == InitView /\ [][NextView]_vars

\* The poll cycles of a task whose session is established, with their history.
InitReduce ==
    /\ modules = register_modules({})
    /\ listeners = {}
    /\ pump = "running"
    /\ bus \in BusScenarios
    /\ session = "established"
    /\ pc = "poll"
    /\ cycle = 0
    /\ queue = << >>
    /\ parked = FALSE
    /\ receiver = "open"
    /\ lastApplied = 0
    /\ bt_text \in render(modules)
    /\ local_config = LocalModuleConfig_default
    /\ ui_event = NoEvent
    /\ clicked = None
    /\ reduced = None

NextReduce ==
    \/ \E fails \in FailureSets(bus) : Reduce(fails)
    \/ Flush
    \/ Sleep
    \/ Deliver
    \/ BusChange

SpecReduce == InitReduce /\ [][NextReduce]_vars

\* The bus changes while a cycle of the model can still read the new state.
BusSettling ==
    /\ cycle < MaxCycles - 1
    /\ BusChange

\* The task with its session established, every query succeeding and the
\* receiver kept; the runtime runs the task when it can go on, and the pump
\* takes the Messages of the channel.
NextLive ==
    \/ Poll({})
    \/ Flush
    \/ Sleep
    \/ Deliver
    \/ BusSettling

SpecLive ==
    /\ InitReduce
    /\ [][NextLive]_vars
    /\ WF_vars(Poll({}))
    /\ WF_vars(Flush)
    /\ WF_vars(Sleep)
    /\ WF_vars(Deliver)

\* Clicks on the bluetooth button, under every click configuration.
InitClick ==
    /\ \E action \in {None} \cup {Some(a) : a \in OnClickActions} :
           modules = with_state(register_modules({}), "BluetoothMod",
                         [BluetoothMod_default EXCEPT !.cfg_override.action = action])
    /\ listeners = {}
    /\ pump = "running"
    /\ bus = << >>
    /\ session = "none"
    /\ pc = "start"
    /\ cycle = 0
    /\ queue = << >>
    /\ parked = FALSE
    /\ receiver = "open"
    /\ lastApplied = 0
    /\ bt_text = NoText
    /\ local_config \in [action : OnClickActions]
    /\ ui_event = NoEvent
    /\ clicked = None
    /\ reduced = None

\* The button's on_event_try: on_click for the event it is handed.
Click(e) ==
    /\ pump = "running"
    /\ get_module(modules, "BluetoothMod") # None
    /\ ui_event' = e
    /\ clicked' = on_click(get_module(modules, "BluetoothMod")[1], e, local_config)
    /\ UNCHANGED <<registryVars, taskVars, local_config, reduced>>

NextClick == \E e \in Events : Click(e)

SpecClick == InitClick /\ [][NextClick]_vars

(***************************************************************************)
(* Properties.                                                             *)
(***************************************************************************)
Range(f) == {f[i] : i \in DOMAIN f}

Registered(mods, T) == Instances(mods, T) # {}

\* The state of the registered BluetoothMod instance.
Bluetooth(mods) == get_module(mods, "BluetoothMod")[1]

\* The distinct devices of a vector of Controllers.
DistinctDevices(cs) == UNION {cs[i].connected_devices : i \in DOMAIN cs}

Rendered == Registered(modules, "BluetoothMod") /\ bt_text # NoText

\* C1: the rendered text is selected by the number n of distinct connected
\* devices of the module's controllers: n = 0 gives one power glyph, n = 1 gives
\* icon, " ", name of the device, n >= 2 gives as many tokens as devices, each
\* glyph as often as devices have it, and neither a name nor a separator.
C1_ViewSelectsByDeviceCount ==
    Rendered =>
        LET devices == DistinctDevices(Bluetooth(modules).controllers)
            n == Cardinality(devices)
        IN  /\ n = 0 => bt_text \in {<<"U+F293">>, <<"U+F294">>}
            /\ n = 1 => \E d \in devices : bt_text = <<d.icon, " ", d.name>>
            /\ n >= 2 =>
                   /\ Len(bt_text) = n
                   /\ \A g \in Range(bt_text) \cup {d.icon : d \in devices} :
                          Cardinality({i \in 1..n : bt_text[i] = g})
                              = Cardinality({d \in devices : d.icon = g})
                   /\ \A i \in 1..n : bt_text[i] \notin Aliases \cup {" "}

\* Two controllers with a device each, rendered as two glyphs.
C1_Witness ==
    /\ Rendered
    /\ Len(Bluetooth(modules).controllers) = 2
    /\ \A i \in 1..2 : Bluetooth(modules).controllers[i].connected_devices # {}
    /\ Cardinality(DistinctDevices(Bluetooth(modules).controllers)) = 2
    /\ Len(bt_text) = 2

\* C2: with no connected device the text is the powered glyph U+F293 if some
\* controller is powered and the unpowered glyph U+F294 if none is (an empty
\* controller list included), and the icon table has an entry for both values.
C2_PowerGlyphWithoutDevices ==
    Rendered =>
        LET cs == Bluetooth(modules).controllers
        IN  /\ DOMAIN Bluetooth(modules).icons = BOOLEAN
            /\ bt_text # <<IconPanic>>
            /\ DistinctDevices(cs) = {} =>
                   /\ (\E i \in DOMAIN cs : cs[i].is_powered) => bt_text = <<"U+F293">>
                   /\ (\A i \in DOMAIN cs : ~cs[i].is_powered) => bt_text = <<"U+F294">>

\* Two controllers without devices, one of them powered, rendered as powered.
C2_Witness ==
    /\ Rendered
    /\ Len(Bluetooth(modules).controllers) = 2
    /\ DistinctDevices(Bluetooth(modules).controllers) = {}
    /\ Bluetooth(modules).controllers[1].is_powered
    /\ ~Bluetooth(modules).controllers[2].is_powered
    /\ bt_text = <<"U+F293">>

\* The entries of the Registry other than the BluetoothMod instance.
Others(mods) == {e \in mods : e.type # "BluetoothMod"}

\* C3: a step in which the pump applies a bluetooth Message to a Registry that
\* holds BluetoothMod makes the module's controllers the snapshot of that
\* Message, and leaves cfg_override, popup_cfg_override and icons, every other
\* module and the listeners as they were.
C3_DeliveryReplacesControllersOnly ==
    [][\A controllers \in ScenarioSnapshots :
           (Dispatch(controllers) /\ Registered(modules, "BluetoothMod")) =>
               /\ Bluetooth(modules').controllers = controllers
               /\ Bluetooth(modules').cfg_override = Bluetooth(modules).cfg_override
               /\ Bluetooth(modules').popup_cfg_override
                      = Bluetooth(modules).popup_cfg_override
               /\ Bluetooth(modules').icons = Bluetooth(modules).icons
               /\ Cardinality(Instances(modules', "BluetoothMod")) = 1
               /\ Others(modules') = Others(modules)
               /\ listeners' = listeners
               /\ pump' = pump]_vars

\* A snapshot of one controller has been delivered to a configured module, in a
\* Registry with other modules and a listener.
C3_Witness ==
    /\ Registered(modules, "BluetoothMod")
    /\ Len(Bluetooth(modules).controllers) = 1
    /\ Bluetooth(modules).cfg_override.icon_size = Some(20)
    /\ Bluetooth(modules).popup_cfg_override.width = Some(300)
    /\ Others(modules) # {}
    /\ listeners # {}

\* The module's controllers, and none while no BluetoothMod is registered.
Controllers(mods) ==
    IF Registered(mods, "BluetoothMod") THEN Bluetooth(mods).controllers ELSE << >>

\* C4: Messages are applied in the order they were sent, one at a time: the
\* channel holds the undelivered Messages in increasing cycle order, all of them
\* later than the last one applied; a delivery applies the oldest of them whole;
\* and between deliveries the module's controllers do not change.
C4_AppliedInSendOrder ==
    [][/\ \A i \in 1..Len(queue') :
              /\ queue'[i].cycle > lastApplied'
              /\ \A j \in 1..Len(queue') : i < j => queue'[i].cycle < queue'[j].cycle
       /\ lastApplied' # lastApplied =>
              /\ queue # << >>
              /\ \A i \in 1..Len(queue) : Head(queue).cycle <= queue[i].cycle
              /\ lastApplied' = Head(queue).cycle
              /\ lastApplied' > lastApplied
              /\ Controllers(modules') = Head(queue).controllers
              /\ queue' = Tail(queue)
       /\ lastApplied' = lastApplied => Controllers(modules') = Controllers(modules)]_vars

\* Two cycles were delivered and a third one waits with another snapshot.
C4_Witness ==
    /\ lastApplied = 2
    /\ Len(queue) = 1
    /\ queue[1].cycle = 3
    /\ queue[1].controllers # Controllers(modules)

\* C5: no step taken while BluetoothMod is not registered traps: a bluetooth
\* Message delivered to such a Registry finds no module and leaves the pump
\* running and the Registry as it was.
C5_AbsentModuleDoesNotTrap ==
    [][~Registered(modules, "BluetoothMod") => pump' = "running"]_vars

\* A step that is a register_module::<T>() call, alone or in register_modules.
Registers(T) == RegisterModules \/ (T \in DirectTypes /\ RegisterModule(T))

\* C6: the Registry never holds two instances of a module type; register_modules
\* leaves exactly one instance of each of the sixteen types, the ones present
\* before untouched; register_module::<T>() with T present changes no module.
C6_OneInstancePerModuleType ==
    [][/\ \A T \in ModuleTypes : Cardinality(Instances(modules', T)) <= 1
       /\ RegisterModules =>
              \A T \in ModuleTypes :
                  /\ Cardinality(Instances(modules', T)) = 1
                  /\ Registered(modules, T) => Instances(modules', T) = Instances(modules, T)
       /\ \A T \in DirectTypes :
              (RegisterModule(T) /\ Registered(modules, T)) => modules' = modules]_vars

\* Every type is registered once, BluetoothMod with a delivered snapshot.
C6_Witness ==
    /\ \A T \in ModuleTypes : Cardinality(Instances(modules, T)) = 1
    /\ Controllers(modules) # << >>

Users(L) ==
    CASE L = "HyprListener" -> {"HyprWindowMod", "HyprWorkspaceMod"}
      [] L = "NiriListener" -> {"NiriWindowMod", "NiriWorkspaceMod"}
      [] L = "WayfireListener" -> {"WayfireWindowMod", "WayfireWorkspaceMod"}

\* C8: the Registry never holds two instances of a Listener type; activating the
\* listeners leaves exactly one instance of each Listener a registered module
\* requires; activate_listener::<L>() with L active changes no listener.
C8_OneInstancePerListenerType ==
    [][/\ \A L \in ListenerTypes : Cardinality(Instances(listeners', L)) <= 1
       /\ ActivateRequired =>
              \A L \in ListenerTypes :
                  (\E M \in Users(L) : Registered(modules, M)) =>
                      Cardinality(Instances(listeners', L)) = 1
       /\ \A L \in ListenerTypes :
              (ActivateListener(L) /\ Registered(listeners, L)) => listeners' = listeners]_vars

\* Both Hypr modules are registered and every Listener is active, once.
C8_Witness ==
    /\ Registered(modules, "HyprWindowMod")
    /\ Registered(modules, "HyprWorkspaceMod")
    /\ \A L \in ListenerTypes : Cardinality(Instances(listeners, L)) = 1

\* C9: once the session could not be established the task has ended, without a
\* poll cycle, a Message or a panic, and the module's controllers are the empty
\* default.
C9_SessionFailureEndsTask ==
    session = "failed" =>
        /\ pc = "ended"
        /\ cycle = 0
        /\ queue = << >>
        /\ lastApplied = 0
        /\ Controllers(modules) = << >>
        /\ pump = "running"

\* The session failed on a bus with two adapters and connected devices.
C9_Witness ==
    /\ session = "failed"
    /\ Len(bus) = 2
    /\ receiver = "dropped"

\* A query the cycle makes when the queries of F fail: the listing of the
\* adapters, and the queries of an adapter that was obtained, the alias being
\* asked of connected devices only.
Asked(b, F, q) ==
    \/ q.q \in {"adapter_names", "adapter"}
    \/ /\ [q |-> "adapter", a |-> q.a, d |-> 0] \notin F
       /\ q.q = "alias" => b[q.a].devices[q.d].connected

\* C10 as amended: a cycle in which a query other than the obtaining of an
\* adapter fails panics and sends nothing; a cycle without such a failure sends
\* one Controller for each adapter it obtained; after the panic the task makes
\* no step, and the module's controllers change only by the delivery of a
\* Message sent before it.
C10_QueryFailureAbortsLoop ==
    [][/\ \A F \in (IF cycle' # cycle THEN FailureSets(bus) ELSE {}) :
              Poll(F) =>
                  IF \E q \in F : q.q # "adapter" /\ Asked(bus, F, q)
                  THEN pc' = "panicked" /\ queue' = queue /\ modules' = modules
                  ELSE /\ pc' # "panicked"
                       /\ receiver = "open" =>
                              /\ Len(queue') = Len(queue) + 1
                              /\ Len(queue'[Len(queue')].controllers)
                                     = Cardinality({i \in 1..Len(bus) :
                                           [q |-> "adapter", a |-> i, d |-> 0] \notin F})
       /\ pc = "panicked" =>
              /\ pc' = "panicked"
              /\ cycle' = cycle
              /\ Len(queue') <= Len(queue)
              /\ Controllers(modules') # Controllers(modules) =>
                     /\ queue # << >>
                     /\ Controllers(modules') = Head(queue).controllers]_vars

\* C10 as stated: a cycle in which any query fails, the obtaining of an adapter
\* included, panics and sends nothing.
C10_AnyQueryFailureAborts ==
    [][\A F \in (IF cycle' # cycle THEN FailureSets(bus) ELSE {}) :
           (Poll(F) /\ \E q \in F : Asked(bus, F, q)) =>
               pc' = "panicked" /\ queue' = queue]_vars

\* The loop was aborted after the module had received a snapshot.
C10_Witness ==
    /\ pc = "panicked"
    /\ lastApplied >= 1
    /\ Controllers(modules) # << >>

\* The slot a release of the left, middle or right button is answered from, and
\* "none" for every other event.
SlotOf(e) ==
    CASE e = Mouse("ButtonReleased", "Left") -> "left"
      [] e = Mouse("ButtonReleased", "Middle") -> "center"
      [] e = Mouse("ButtonReleased", "Right") -> "right"
      [] OTHER -> "none"

\* The OnClickAction on_click hands the event to.
Consulted ==
    unwrap_or(Bluetooth(modules).cfg_override.action, local_config.action)

\* C11: for a release of the left, middle or right button the result is what
\* the left, center or right slot of the consulted OnClickAction holds, none
\* when that slot is not configured; for every other event it is none.
C11_EventMapsReleaseToSlot ==
    ui_event # NoEvent =>
        /\ SlotOf(ui_event) = "left" => clicked = Consulted.left
        /\ SlotOf(ui_event) = "center" => clicked = Consulted.center
        /\ SlotOf(ui_event) = "right" => clicked = Consulted.right
        /\ SlotOf(ui_event) = "none" => clicked = None
        /\ ui_event.kind # "ButtonReleased" => clicked = None
        /\ ui_event.button \notin {"Left", "Middle", "Right"} => clicked = None

\* A release of the middle button got the center action, with three different
\* actions in the three slots.
C11_Witness ==
    /\ ui_event = Mouse("ButtonReleased", "Middle")
    /\ clicked # None
    /\ clicked = Consulted.center
    /\ None \notin {Consulted.left, Consulted.right}
    /\ Cardinality({Consulted.left, Consulted.center, Consulted.right}) = 3

\* The Message a poll cycle has just sent.
Sent(q) == q[Len(q)]

\* The connected devices at the addresses of a raw adapter.
ConnectedAt(adapter) == {j \in 1..Len(adapter.devices) : adapter.devices[j].connected}

\* Icon label and name of the device at address j of a raw adapter.
Label(adapter, j) == DeviceIcon(unwrap_or(adapter.devices[j].icon, "None"))
Alias(adapter, j) == adapter.devices[j].alias

\* C12: in the snapshot a poll cycle sends, no controller's connected-device set
\* holds two entries of equal icon and name, and each set is that of an adapter
\* of the bus with the connected devices of equal icon and name, whatever their
\* addresses, as one entry.
C12_EqualDevicesCollapse ==
    [][(cycle' # cycle /\ pc' = "flush") =>
           \A k \in 1..Len(Sent(queue').controllers) :
               LET set == Sent(queue').controllers[k].connected_devices
               IN  /\ \A d1, d2 \in set :
                          (d1.icon = d2.icon /\ d1.name = d2.name) => d1 = d2
                   /\ \E i \in 1..Len(bus) :
                          /\ \A j \in ConnectedAt(bus[i]) :
                                 Cardinality({d \in set : /\ d.icon = Label(bus[i], j)
                                                          /\ d.name = Alias(bus[i], j)}) = 1
                          /\ Cardinality(set)
                                 = Cardinality({<<Label(bus[i], j), Alias(bus[i], j)>> :
                                                   j \in ConnectedAt(bus[i])})]_vars

\* A snapshot with one device was sent from a bus whose adapter reports two
\* connected devices, of different class and equal icon and name.
C12_Witness ==
    /\ pc = "flush"
    /\ Len(bus) = 1
    /\ Cardinality(ConnectedAt(bus[1])) = 2
    /\ bus[1].devices[1].icon # bus[1].devices[2].icon
    /\ Len(Sent(queue).controllers) = 1
    /\ Cardinality(Sent(queue).controllers[1].connected_devices) = 1

\* C13: a step of the subscription task (one that moves its position, starts a
\* cycle or opens the session) leaves the modules, the listeners and the
\* rendered text as they were; the module's controllers change only in a step in
\* which the pump takes a Message out of the channel and applies it, and in that
\* step the task does not move.
C13_TaskNeverWritesRegistry ==
    [][/\ (pc' # pc \/ cycle' # cycle \/ session' # session) =>
              /\ modules' = modules
              /\ listeners' = listeners
              /\ bt_text' = bt_text
       /\ Controllers(modules') # Controllers(modules) =>
              /\ pump = "running"
              /\ queue # << >>
              /\ queue' = Tail(queue)
              /\ lastApplied' = Head(queue).cycle
              /\ pc' = pc /\ cycle' = cycle /\ session' = session]_vars

\* The task has sent the snapshot of its second cycle while the module holds
\* another one, that of the first.
C13_Witness ==
    /\ pc = "flush"
    /\ cycle = 2
    /\ lastApplied = 1
    /\ queue # << >>
    /\ Controllers(modules) # << >>
    /\ Controllers(modules) # Sent(queue).controllers

Nth(S, k) == CHOOSE i \in S : Cardinality({j \in S : j < i}) = k - 1

\* Controller c is the reduction of the raw adapter: its powered state, and the
\* {icon, name} of its devices that report connected, and of no other.
ReductionOf(c, adapter) ==
    /\ c.is_powered = adapter.powered
    /\ c.connected_devices
           = {Device(Label(adapter, j), Alias(adapter, j)) : j \in ConnectedAt(adapter)}

\* C15 as amended: a poll cycle that completes sends one Controller for each
\* adapter the session could obtain, in enumeration order: the snapshot is as
\* long as the adapters obtained are many, and its k-th Controller is the
\* reduction of the k-th of them.
C15_OneControllerPerObtainedAdapter ==
    [][(cycle' # cycle /\ pc' = "flush") =>
           LET cs == Sent(queue').controllers
               got == reduced'[1].obtained
           IN  /\ reduced'[1].bus = bus
               /\ Len(cs) = Cardinality(got)
               /\ \A k \in 1..Len(cs) : ReductionOf(cs[k], bus[Nth(got, k)])]_vars

\* C15 as stated: a poll cycle that completes sends one Controller for each
\* adapter name listed: the snapshot is as long as the bus has adapters, and its
\* k-th Controller is the reduction of the k-th adapter.
C15_OneControllerPerAdapterName ==
    [][(cycle' # cycle /\ pc' = "flush") =>
           LET cs == Sent(queue').controllers
           IN  /\ Len(cs) = Len(bus)
               /\ \A k \in 1..Len(cs) : ReductionOf(cs[k], bus[k])]_vars

\* A cycle on a bus of two adapters could not obtain the first and sent the one
\* Controller of the second, with its two connected devices.
C15_Witness ==
    /\ pc = "flush"
    /\ reduced # None
    /\ Len(reduced[1].bus) = 2
    /\ reduced[1].obtained = {2}
    /\ Len(Sent(queue).controllers) = 1
    /\ Sent(queue).controllers[1].is_powered
    /\ Cardinality(Sent(queue).controllers[1].connected_devices) = 2

\* C16: once the receiver is dropped, a poll cycle whose queries succeed ends at
\* its send with the task returned, not panicked, and its snapshot is sent
\* nowhere; every cycle begun after the drop is the last; the returned task
\* makes no step; the channel gets no Message any more, so the module's
\* controllers change only to a whole snapshot sent before the drop, and never
\* to that of the abandoned cycle.
C16_CancelledTaskStopsAtNextSend ==
    [][/\ \A F \in (IF cycle' # cycle /\ receiver = "dropped"
                    THEN FailureSets(bus) ELSE {}) :
              (Poll(F) /\ ~\E q \in F : q.q # "adapter" /\ Asked(bus, F, q)) =>
                  pc' = "returned"
       /\ (receiver = "dropped" /\ cycle' # cycle) =>
              /\ pc' \in {"returned", "panicked"}
              /\ queue' = queue
              /\ modules' = modules
       /\ pc = "returned" =>
              /\ pc' = "returned"
              /\ cycle' = cycle
              /\ receiver' = "dropped"
       /\ pc' = "returned" =>
              /\ lastApplied' < cycle'
              /\ \A i \in 1..Len(queue') : queue'[i].cycle < cycle'
       /\ receiver = "dropped" =>
              /\ Len(queue') <= Len(queue)
              /\ Controllers(modules') # Controllers(modules) =>
                     /\ queue # << >>
                     /\ Controllers(modules') = Head(queue).controllers
                     /\ pc = "returned" => Head(queue).cycle < cycle]_vars

\* The task returned at the send of its third cycle; the snapshots of the two
\* cycles before were delivered, the second of them after the task had returned.
C16_Witness ==
    /\ pc = "returned"
    /\ receiver = "dropped"
    /\ cycle = 3
    /\ lastApplied = 2
    /\ queue = << >>
    /\ Controllers(modules) # << >>

\* The vector get_controllers makes of bus b when every query succeeds.
Healed(cs, b) ==
    /\ Len(cs) = Len(b)
    /\ \A k \in 1..Len(b) : ReductionOf(cs[k], b[k])

\* C17: with the session established, every query succeeding, the receiver kept
\* and the pump delivering, if the bus stays in a state from some point on then
\* from some point on the module's controllers are the reduction of that state;
\* so if no device of the bus stays connected, the module ends with no connected
\* device.
C17_SelfHealing ==
    /\ \A b \in BusScenarios :
           <>[](bus = b) => <>[](Healed(Controllers(modules), b))
    /\ <>[](\A i \in 1..Len(bus) : ConnectedAt(bus[i]) = {})
           => <>[](DistinctDevices(Controllers(modules)) = {})

\* The module still shows a device that has disconnected since, and the
\* snapshot without it is on its way.
C17_Witness ==
    /\ DistinctDevices(Controllers(modules)) # {}
    /\ bus # << >>
    /\ \A i \in 1..Len(bus) : ConnectedAt(bus[i]) = {}
    /\ \E i \in 1..Len(bus) : bus[i].devices # << >>
    /\ Len(queue) = 1
    /\ Healed(queue[1].controllers, bus)

\* The Messages the channel can hold: its buffer, and one more for its sender.
ChannelBound == ChannelBuffer + 1

\* C18: the channel never holds more Messages than its bound; a poll cycle that
\* completes with the receiver there appends exactly one Message, its own, and
\* a cycle that does not complete none; the task goes on to sleep, and to its
\* next cycle, only when the send has completed, the channel within its buffer
\* or the receiver gone; and no step of the task removes or alters a Message of
\* the channel.
C18_Backpressure ==
    [][/\ Len(queue') <= ChannelBound
       /\ cycle' # cycle =>
              /\ cycle' = cycle + 1
              /\ pc = "poll"
              /\ Len(queue) <= ChannelBuffer \/ receiver = "dropped"
              /\ pc' = "flush" =>
                     /\ Len(queue') = Len(queue) + 1
                     /\ Sent(queue').cycle = cycle'
              /\ pc' # "flush" => queue' = queue
       /\ (pc = "flush" /\ pc' # pc) =>
              /\ pc' = "sleep"
              /\ Len(queue) <= ChannelBuffer \/ receiver = "dropped"
       /\ (pc' # pc \/ cycle' # cycle) =>
              /\ Len(queue') >= Len(queue)
              /\ \A i \in 1..Len(queue) : queue'[i] = queue[i]]_vars

\* The channel is full: the pump has taken nothing, and the task waits in the
\* send of its second cycle.
C18_Witness ==
    /\ Len(queue) = ChannelBound
    /\ parked
    /\ pc = "flush"
    /\ cycle = 2
    /\ lastApplied = 0
    /\ receiver = "open"

\* C19: when the module's cfg_override.action is set, the result comes from the
\* override alone, and is none for a button whose slot the override leaves
\* unset, whatever the shared config holds for it; when the override is absent
\* the result comes from the shared config's action.
C19_OverrideReplacesActionsWhole ==
    (ui_event # NoEvent /\ SlotOf(ui_event) # "none") =>
        LET own == Bluetooth(modules).cfg_override.action
            slot == SlotOf(ui_event)
        IN  /\ own # None => clicked = own[1][slot]
            /\ (own # None /\ own[1][slot] = None) => clicked = None
            /\ own = None => clicked = local_config.action[slot]

\* The override is set without a left action, the shared config has one, and a
\* release of the left button yields no Action.
C19_Witness ==
    /\ ui_event = Mouse("ButtonReleased", "Left")
    /\ Bluetooth(modules).cfg_override.action # None
    /\ Bluetooth(modules).cfg_override.action[1].left = None
    /\ Bluetooth(modules).cfg_override.action[1].right # None
    /\ local_config.action.left # None
    /\ clicked = None

====
